---- MODULE Spec2Model ----
(***************************************************************************)
(* The Kanban board (KanbanBoard, Column, Card) as a state machine.        *)
(*                                                                         *)
(* JavaScript strings that the code trims, lower-cases or searches are     *)
(* sequences of one-character strings; notification texts, priorities and  *)
(* operation names, which the code only copies, are TLA+ strings.          *)
(* null / undefined of a string-valued slot is the empty sequence Null     *)
(* (ids are never empty).                                                  *)
(*                                                                         *)
(* A handler closes over the `tasks` of the render it was created in: an   *)
(* in-flight call keeps that snapshot (field snap) and its continuation    *)
(* writes from the snapshot, not from the collection current at the time   *)
(* of the response.                                                        *)
(***************************************************************************)
EXTENDS Integers, Sequences, FiniteSets, TLC

(* ------------------------------ bounds --------------------------------- *)

\* Rows the remote table holds before the first load.
MaxInitRows == 2
\* Remote mutations (insert, update, delete) issued in one behaviour.
MaxGestures == 3
\* Remote mutations in flight at the same time.
MaxCalls == 2
\* Add-task forms open at the same time, and cards in edit mode at the same time.
MaxOpen == 1
\* The size of a behaviour: the rows of the table before the first load plus
\* the user's steps, which are the remote mutations and the clicks and
\* keystrokes that change what a form, a card or the search field holds.
MaxSize == 5

(* ------------------------------ strings -------------------------------- *)

Null == <<>>

WhiteSpace == {" ", "\t", "\n"}

\* The lower-case letter of an upper-case letter; any other character is itself.
LowerOf == [c \in {"A","B","C","D","E","F","G","H","I","J","K","L","M",
                   "N","O","P","Q","R","S","T","U","V","W","X","Y","Z"} |->
  CASE c = "A" -> "a" [] c = "B" -> "b" [] c = "C" -> "c" [] c = "D" -> "d"
    [] c = "E" -> "e" [] c = "F" -> "f" [] c = "G" -> "g" [] c = "H" -> "h"
    [] c = "I" -> "i" [] c = "J" -> "j" [] c = "K" -> "k" [] c = "L" -> "l"
    [] c = "M" -> "m" [] c = "N" -> "n" [] c = "O" -> "o" [] c = "P" -> "p"
    [] c = "Q" -> "q" [] c = "R" -> "r" [] c = "S" -> "s" [] c = "T" -> "t"
    [] c = "U" -> "u" [] c = "V" -> "v" [] c = "W" -> "w" [] c = "X" -> "x"
    [] c = "Y" -> "y" [] c = "Z" -> "z"]

toLowerCaseChar(c) == IF c \in DOMAIN LowerOf THEN LowerOf[c] ELSE c

\* String.prototype.toLowerCase
toLowerCase(s) == [i \in 1..Len(s) |-> toLowerCaseChar(s[i])]

RECURSIVE trimStart(_)
trimStart(s) ==
  IF s # <<>> /\ Head(s) \in WhiteSpace THEN trimStart(Tail(s)) ELSE s

RECURSIVE trimEnd(_)
trimEnd(s) ==
  IF s # <<>> /\ s[Len(s)] \in WhiteSpace
  THEN trimEnd(SubSeq(s, 1, Len(s) - 1)) ELSE s

\* String.prototype.trim
trim(s) == trimEnd(trimStart(s))

\* String.prototype.includes
includes(s, q) ==
  \E i \in 0..(Len(s) - Len(q)) : SubSeq(s, i + 1, i + Len(q)) = q

(* --------------------------- configuration ----------------------------- *)

Todo == <<"T","o","d","o">>
InProgress == <<"I","n"," ","P","r","o","g","r","e","s","s">>
Done == <<"D","o","n","e">>

defaultColumns == <<Todo, InProgress, Done>>
ColumnIds == {defaultColumns[i] : i \in 1..Len(defaultColumns)}

\* What the handler catches when its remote call was rejected: an Error
\* instance with a message, or a value that is not an Error instance.
NotAnError == "(not an Error instance)"
StoreErrors == {"network down", NotAnError}

\* err instanceof Error ? err.message : fallback
ErrorMessage(err, fallback) == IF err = NotAnError THEN fallback ELSE err

NoError == "(null)"
NoToast == [kind |-> "none", message |-> ""]

(* --------------------------- remote table ------------------------------ *)

Digits == <<"1","2","3","4","5","6","7","8","9">>
IdOf(n) == <<Digits[n]>>

\* Rows the remote table may hold before the first load, in creation order.
\* The first row's status differs from a column identifier in letter case only.
SampleRows == <<
  [id |-> IdOf(1), title |-> <<"b">>, description |-> <<>>,
   status |-> <<"t","o","d","o">>, priority |-> "low", assignee |-> Null],
  [id |-> IdOf(2), title |-> <<"A","b">>, description |-> <<"x">>,
   status |-> Todo, priority |-> "high", assignee |-> <<"a","n","n">>] >>

\* The tables of the first n of these rows, n up to MaxInitRows.
InitialStores ==
  {SubSeq(SampleRows, 1, n) : n \in {m \in 0..Len(SampleRows) : m <= MaxInitRows}}

(* ------------------------------ inputs --------------------------------- *)

SearchInputs == {<<>>, <<"B">>}
NewTitleInputs == {<<" ">>, <<" ","N"," ">>}
NewDescriptionInputs == {<<"d"," ">>}
EditTitleInputs == {<<" ">>, <<"E">>}
EditDescriptionInputs == {<<"y">>}

(* ------------------------------ state ---------------------------------- *)

VARIABLES
  tasks,        \* useState<Task[]>: the local collection
  activeId,     \* useState<string | null>: the currently dragged id
  searchQuery,  \* useState(''): the search text
  isLoading,    \* useState(true)
  error,        \* useState<string | null>: the page-level error
  forms,        \* per Column: isAddingTask, newTaskTitle, newTaskDescription
  cards,        \* per mounted Card: its column, isEditing, editedTitle, editedDescription
  dragging,     \* DndContext: the id of the draggable being dragged, or Null
  toast,        \* the last notification shown
  store,        \* the remote table, in creation order
  nextId,       \* the remote table's id generator
  calls,        \* remote calls in flight, oldest first, with their handlers' closures
  gestures,     \* remote mutations issued so far
  stepsLeft     \* user steps the behaviour still has

vars == <<tasks, activeId, searchQuery, isLoading, error, forms, cards,
          dragging, toast, store, nextId, calls, gestures, stepsLeft>>

(* ------------------------------ the view ------------------------------- *)

\* const filteredTasks = tasks.filter(title includes query, both lower-cased)
filteredTasks(ts, q) ==
  LET lq == toLowerCase(q)
  IN  SelectSeq(ts, LAMBDA task : includes(toLowerCase(task.title), lq))

\* inColumn comparing the strings as they are
inColumn_CaseSensitive(task, columnId) == task.status = columnId

\* task.status.toLowerCase() === columnId.toLowerCase()
inColumn(task, columnId) == toLowerCase(task.status) = toLowerCase(columnId)

\* tasksByColumn[columnId]
tasksByColumn(ts, q, columnId) ==
  SelectSeq(filteredTasks(ts, q), LAMBDA task : inColumn(task, columnId))

EmptyForm == [isAddingTask |-> FALSE, newTaskTitle |-> <<>>, newTaskDescription |-> <<>>]

NoCards == [id \in {} |-> EmptyForm]

\* useState initial values of a Card mounted for `task` in column c
FreshCard(task, c) ==
  [col |-> c, isEditing |-> FALSE,
   editedTitle |-> task.title, editedDescription |-> task.description]

\* React reconciliation of the Cards after a render.  The Columns render
\* tasksByColumn: no Card under the page-level error (the board is not
\* rendered) nor while loading (the spinner replaces the list).  A Card keeps
\* its state while a task with its key stays in the same Column's list, and
\* is mounted afresh otherwise.
MountedCards(old, ts, q, loading, err) ==
  LET shown == IF err # NoError \/ loading
               THEN <<>>
               ELSE SelectSeq(filteredTasks(ts, q),
                              LAMBDA task : \E c \in ColumnIds : inColumn(task, c))
  IN  [id \in {shown[i].id : i \in 1..Len(shown)} |->
         LET task == shown[CHOOSE i \in 1..Len(shown) : shown[i].id = id]
             c == CHOOSE c \in ColumnIds : inColumn(task, c)
         IN  IF id \in DOMAIN old /\ old[id].col = c
             THEN old[id]
             ELSE FreshCard(task, c)]

\* The Columns are unmounted under the page-level error; their forms restart empty.
MountedForms(old, err) ==
  IF err # NoError THEN [c \in ColumnIds |-> EmptyForm] ELSE old

\* A Card's pending handleSave can still reach its Card only while that Card
\* stays mounted.
SurvivingCalls(cs, old, new) ==
  LET kept(id) == id \in DOMAIN old /\ id \in DOMAIN new /\ old[id].col = new[id].col
      F(call) == IF call.op = "update"
                 THEN [call EXCEPT !.card = call.card /\ kept(call.id)]
                 ELSE call
  IN  [i \in 1..Len(cs) |-> F(cs[i])]

(* ------------------------------ Init ----------------------------------- *)

ListCall == [op |-> "list", phase |-> "sent", data |-> <<>>]

\* The state after the first render and its effect: fetchTasks has set
\* isLoading and error and its select is in flight.
Init ==
  /\ tasks = <<>>
  /\ activeId = Null
  /\ searchQuery = <<>>
  /\ isLoading = TRUE
  /\ error = NoError
  /\ forms = [c \in ColumnIds |-> EmptyForm]
  /\ cards = NoCards
  /\ dragging = Null
  /\ toast = NoToast
  /\ store \in InitialStores
  /\ nextId = Len(SampleRows) + 1
  /\ calls = <<ListCall>>
  /\ gestures = 0
  /\ stepsLeft = MaxSize - Len(store)

(* --------------------------- helpers ----------------------------------- *)

Remove(cs, i) == SubSeq(cs, 1, i - 1) \o SubSeq(cs, i + 1, Len(cs))

\* { ...task, ...updates }
Merge(task, updates) ==
  [f \in DOMAIN task \cup DOMAIN updates |->
     IF f \in DOMAIN updates THEN updates[f] ELSE task[f]]

\* tasks.find((task) => task.id === id) finds a task
HasTask(ts, id) == \E k \in 1..Len(ts) : ts[k].id = id
Find(ts, id) == ts[CHOOSE k \in 1..Len(ts) : ts[k].id = id /\ \A j \in 1..(k - 1) : ts[j].id # id]

Mutations(cs) == SelectSeq(cs, LAMBDA call : call.op # "list")
CanIssue == gestures < MaxGestures /\ stepsLeft > 0 /\ Len(Mutations(calls)) < MaxCalls
CanType == stepsLeft > 0

\* The state every render derives from the board's state.
Rendered(cs) ==
  /\ cards' = MountedCards(cards, tasks', searchQuery', isLoading', error')
  /\ forms' = MountedForms(forms, error')
  /\ calls' = SurvivingCalls(cs, cards, cards')

(* --------------------------- remote store ------------------------------ *)

\* The row insert(candidate).select().single() creates and returns.
InsertedRow(candidate, n) ==
  [id |-> IdOf(n), title |-> candidate.title, description |-> candidate.description,
   status |-> candidate.status, priority |-> candidate.priority, assignee |-> Null]

\* update(fields).eq('id', id)
StoreUpdate(rows, id, fields) ==
  [k \in 1..Len(rows) |-> IF rows[k].id = id THEN Merge(rows[k], fields) ELSE rows[k]]

\* delete().eq('id', id)
StoreDelete(rows, id) == SelectSeq(rows, LAMBDA row : row.id # id)

\* The store accepts call i and applies it.
StoreAccept(i) ==
  LET call == calls[i] IN
  /\ call.phase = "sent"
  /\ CASE call.op = "list" ->
            /\ calls' = [calls EXCEPT ![i].phase = "ok", ![i].data = store]
            /\ UNCHANGED <<store, nextId>>
       [] call.op = "insert" ->
            /\ calls' = [calls EXCEPT ![i].phase = "ok",
                                      ![i].data = InsertedRow(call.newTask, nextId)]
            /\ store' = Append(store, InsertedRow(call.newTask, nextId))
            /\ nextId' = nextId + 1
       [] call.op = "update" ->
            /\ calls' = [calls EXCEPT ![i].phase = "ok"]
            /\ store' = StoreUpdate(store, call.id, call.updates)
            /\ UNCHANGED nextId
       [] call.op = "move" ->
            /\ calls' = [calls EXCEPT ![i].phase = "ok"]
            /\ store' = StoreUpdate(store, call.id, [status |-> call.overColumn])
            /\ UNCHANGED nextId
       [] call.op = "delete" ->
            /\ calls' = [calls EXCEPT ![i].phase = "ok"]
            /\ store' = StoreDelete(store, call.id)
            /\ UNCHANGED nextId
  /\ UNCHANGED <<tasks, activeId, searchQuery, isLoading, error, forms, cards,
                 dragging, toast, gestures>>
  /\ UNCHANGED stepsLeft

\* The store (or the network) rejects call i: a StoreError, nothing applied.
StoreReject(i) ==
  /\ calls[i].phase = "sent"
  /\ calls' = [calls EXCEPT ![i].phase = "err"]
  /\ UNCHANGED <<tasks, activeId, searchQuery, isLoading, error, forms, cards,
                 dragging, toast, store, nextId, gestures>>
  /\ UNCHANGED stepsLeft

(* ------------------------------ load ----------------------------------- *)

\* fetchTasks up to its await (the Retry button of the error page)
fetchTasks ==
  /\ error # NoError
  /\ isLoading' = TRUE
  /\ error' = NoError
  /\ UNCHANGED <<tasks, activeId, searchQuery, dragging, toast, store, nextId, gestures>>
  /\ Rendered(Append(calls, ListCall))
  /\ UNCHANGED stepsLeft

\* fetchTasksResume without the `finally` block: isLoading is left as it is
fetchTasksResume_NoFinally(i) ==
  LET call == calls[i] IN
  /\ call.op = "list" /\ call.phase # "sent"
  /\ IF call.phase = "ok"
     THEN /\ tasks' = call.data
          /\ UNCHANGED <<error, toast>>
     ELSE /\ \E err \in StoreErrors : error' = ErrorMessage(err, "Failed to fetch tasks")
          /\ toast' = [kind |-> "error", message |-> error']
          /\ UNCHANGED tasks
  /\ UNCHANGED isLoading
  /\ UNCHANGED <<activeId, searchQuery, dragging, store, nextId, gestures>>
  /\ Rendered(Remove(calls, i))
  /\ UNCHANGED stepsLeft

\* fetchTasks from its await on
fetchTasksResume(i) ==
  LET call == calls[i] IN
  /\ call.op = "list" /\ call.phase # "sent"
  /\ IF call.phase = "ok"
     THEN /\ tasks' = call.data
          /\ UNCHANGED <<error, toast>>
     ELSE /\ \E err \in StoreErrors : error' = ErrorMessage(err, "Failed to fetch tasks")
          /\ toast' = [kind |-> "error", message |-> error']
          /\ UNCHANGED tasks
  /\ isLoading' = FALSE
  /\ UNCHANGED <<activeId, searchQuery, dragging, store, nextId, gestures>>
  /\ Rendered(Remove(calls, i))
  /\ UNCHANGED stepsLeft

\* onChange of the search input
setSearchQuery(q) ==
  /\ error = NoError /\ dragging = Null
  /\ q # searchQuery
  /\ searchQuery' = q
  /\ UNCHANGED <<tasks, activeId, isLoading, error, dragging, toast, store, nextId, gestures>>
  /\ Rendered(calls)
  /\ CanType /\ stepsLeft' = stepsLeft - 1

(* --------------------------- drag and drop ----------------------------- *)

\* onDragStart of DndContext: a mounted Card that is not being edited is picked up.
onDragStart(id) ==
  /\ dragging = Null
  /\ id \in DOMAIN cards /\ ~cards[id].isEditing
  /\ activeId' = id
  /\ dragging' = id
  /\ UNCHANGED <<tasks, searchQuery, isLoading, error, forms, cards, toast,
                 store, nextId, calls, gestures>>
  /\ UNCHANGED stepsLeft

\* What the drag library can report as `over` when the drag ends: nothing, a
\* Column (useDroppable) or a mounted Card that is not being edited (useSortable).
DropTargets == {Null} \cup ColumnIds \cup {id \in DOMAIN cards : ~cards[id].isEditing}

MoveCall(ts, id, over) ==
  [op |-> "move", phase |-> "sent", snap |-> ts, id |-> id, overColumn |-> over]

\* handleDragEnd up to its await, or to its end when it awaits nothing
handleDragEnd(over) ==
  /\ dragging # Null
  /\ dragging' = Null
  /\ IF over = Null
     THEN UNCHANGED <<activeId, calls, gestures, stepsLeft>>
     ELSE IF HasTask(tasks, dragging) /\ Find(tasks, dragging).status # over
          THEN /\ CanIssue
               /\ calls' = Append(calls, MoveCall(tasks, dragging, over))
               /\ gestures' = gestures + 1
               /\ stepsLeft' = stepsLeft - 1
               /\ UNCHANGED activeId
          ELSE /\ activeId' = Null
               /\ UNCHANGED <<calls, gestures, stepsLeft>>
  /\ UNCHANGED <<tasks, searchQuery, isLoading, error, forms, cards, toast, store, nextId>>

\* handleDragEndTasks without `if (supabaseError) throw supabaseError`
handleDragEndTasks_IgnoreError(cur, call) ==
  [k \in 1..Len(call.snap) |->
     IF call.snap[k].id = call.id
     THEN [call.snap[k] EXCEPT !.status = call.overColumn]
     ELSE call.snap[k]]

\* handleDragEndTasks keeping a status that an earlier response has already
\* changed: the first response wins
handleDragEndTasks_FirstWins(cur, call) ==
  IF call.phase = "err"
  THEN cur
  ELSE [k \in 1..Len(call.snap) |->
          IF call.snap[k].id = call.id
          THEN IF HasTask(cur, call.id) /\ Find(cur, call.id).status # call.snap[k].status
               THEN [call.snap[k] EXCEPT !.status = Find(cur, call.id).status]
               ELSE [call.snap[k] EXCEPT !.status = call.overColumn]
          ELSE call.snap[k]]

\* The collection handleDragEnd leaves once the update has answered.
handleDragEndTasks(cur, call) ==
  IF call.phase = "err"
  THEN cur
  ELSE [k \in 1..Len(call.snap) |->
          IF call.snap[k].id = call.id
          THEN [call.snap[k] EXCEPT !.status = call.overColumn]
          ELSE call.snap[k]]

\* handleDragEnd from its await on
handleDragEndResume(i) ==
  LET call == calls[i] IN
  /\ call.op = "move" /\ call.phase # "sent"
  /\ tasks' = handleDragEndTasks(tasks, call)
  /\ \E err \in StoreErrors : toast' = IF call.phase = "ok"
              THEN [kind |-> "success", message |-> "Task moved successfully"]
              ELSE [kind |-> "error", message |-> ErrorMessage(err, "Failed to update task")]
  /\ activeId' = Null
  /\ UNCHANGED <<searchQuery, isLoading, error, dragging, store, nextId, gestures>>
  /\ Rendered(Remove(calls, i))
  /\ UNCHANGED stepsLeft

(* ------------------------------ add ------------------------------------ *)

InsertCall(ts, newTask) ==
  [op |-> "insert", phase |-> "sent", snap |-> ts, newTask |-> newTask, data |-> <<>>]

\* handleAddTask of the board, up to its await
handleAddTask(columnId, title, description) ==
  /\ CanIssue
  /\ calls' = Append(calls, InsertCall(tasks,
                 [title |-> title, description |-> description,
                  status |-> columnId, priority |-> "medium"]))
  /\ gestures' = gestures + 1
  /\ stepsLeft' = stepsLeft - 1
  /\ UNCHANGED <<tasks, activeId, searchQuery, isLoading, error, cards, dragging,
                 toast, store, nextId>>

\* handleAddTaskTasks with an id made by the client from the collection's length
handleAddTaskTasks_ClientId(cur, call) ==
  IF call.phase = "err"
  THEN cur
  ELSE Append(call.snap,
              [call.data EXCEPT !.id = IdOf(IF call.snap = <<>> THEN 1 ELSE Len(call.snap))])

\* handleAddTaskTasks putting the record first: [data, ...tasks]
handleAddTaskTasks_Prepend(cur, call) ==
  IF call.phase = "err" THEN cur ELSE <<call.data>> \o call.snap

\* The collection handleAddTask leaves once the insert has answered.
handleAddTaskTasks(cur, call) ==
  IF call.phase = "err" THEN cur ELSE Append(call.snap, call.data)

\* handleAddTask of the board, from its await on
handleAddTaskResume(i) ==
  LET call == calls[i] IN
  /\ call.op = "insert" /\ call.phase # "sent"
  /\ tasks' = handleAddTaskTasks(tasks, call)
  /\ \E err \in StoreErrors : toast' = IF call.phase = "ok"
              THEN [kind |-> "success", message |-> "Task created successfully"]
              ELSE [kind |-> "error", message |-> ErrorMessage(err, "Failed to create task")]
  /\ UNCHANGED <<activeId, searchQuery, isLoading, error, dragging, store, nextId, gestures>>
  /\ Rendered(Remove(calls, i))
  /\ UNCHANGED stepsLeft

OpenForms == {c \in ColumnIds : forms[c].isAddingTask}

\* The dashed "Add Task" button of a Column
openForm(c) ==
  /\ error = NoError /\ ~isLoading /\ dragging = Null
  /\ ~forms[c].isAddingTask
  /\ Cardinality(OpenForms) < MaxOpen
  /\ forms' = [forms EXCEPT ![c].isAddingTask = TRUE]
  /\ UNCHANGED <<tasks, activeId, searchQuery, isLoading, error, cards, dragging,
                 toast, store, nextId, calls, gestures>>
  /\ CanType /\ stepsLeft' = stepsLeft - 1

setNewTaskTitle(c, s) ==
  /\ dragging = Null
  /\ forms[c].isAddingTask /\ forms[c].newTaskTitle # s
  /\ forms' = [forms EXCEPT ![c].newTaskTitle = s]
  /\ UNCHANGED <<tasks, activeId, searchQuery, isLoading, error, cards, dragging,
                 toast, store, nextId, calls, gestures>>
  /\ CanType /\ stepsLeft' = stepsLeft - 1

setNewTaskDescription(c, s) ==
  /\ dragging = Null
  /\ forms[c].isAddingTask /\ forms[c].newTaskDescription # s
  /\ forms' = [forms EXCEPT ![c].newTaskDescription = s]
  /\ UNCHANGED <<tasks, activeId, searchQuery, isLoading, error, cards, dragging,
                 toast, store, nextId, calls, gestures>>
  /\ CanType /\ stepsLeft' = stepsLeft - 1

\* ColumnHandleAddTask forwarding what was typed, neither tested nor trimmed
ColumnHandleAddTask_NoTrim(c) ==
  /\ dragging = Null
  /\ forms[c].isAddingTask
  /\ handleAddTask(c, forms[c].newTaskTitle, forms[c].newTaskDescription)
  /\ forms' = [forms EXCEPT ![c] = EmptyForm]

\* handleAddTask of a Column: the form's "Add Task" button, or Enter in the
\* title field (handleKeyPress)
ColumnHandleAddTask(c) ==
  /\ dragging = Null
  /\ forms[c].isAddingTask
  /\ IF trim(forms[c].newTaskTitle) # <<>>
     THEN /\ handleAddTask(c, trim(forms[c].newTaskTitle), trim(forms[c].newTaskDescription))
          /\ forms' = [forms EXCEPT ![c] = EmptyForm]
     ELSE UNCHANGED vars

(* ------------------------------ delete --------------------------------- *)

DeleteCall(ts, taskId) ==
  [op |-> "delete", phase |-> "sent", snap |-> ts, id |-> taskId]

\* handleDeleteTask removing the task before the store has answered
handleDeleteTask_Optimistic(taskId) ==
  /\ CanIssue
  /\ tasks' = SelectSeq(tasks, LAMBDA task : task.id # taskId)
  /\ gestures' = gestures + 1
  /\ stepsLeft' = stepsLeft - 1
  /\ UNCHANGED <<activeId, searchQuery, isLoading, error, forms, cards, dragging,
                 toast, store, nextId>>
  /\ calls' = Append(calls, DeleteCall(tasks, taskId))

\* handleDeleteTask up to its await
handleDeleteTask(taskId) ==
  /\ CanIssue
  /\ calls' = Append(calls, DeleteCall(tasks, taskId))
  /\ gestures' = gestures + 1
  /\ stepsLeft' = stepsLeft - 1
  /\ UNCHANGED <<tasks, activeId, searchQuery, isLoading, error, forms, cards, dragging,
                 toast, store, nextId>>

\* The collection handleDeleteTask leaves once the delete has answered.
handleDeleteTaskTasks(cur, call) ==
  IF call.phase = "err"
  THEN cur
  ELSE SelectSeq(call.snap, LAMBDA task : task.id # call.id)

\* handleDeleteTaskResume whose catch block also sets the page-level error
handleDeleteTaskResume_SetError(i) ==
  LET call == calls[i] IN
  /\ call.op = "delete" /\ call.phase # "sent"
  /\ tasks' = handleDeleteTaskTasks(tasks, call)
  /\ \E err \in StoreErrors :
       /\ toast' = IF call.phase = "ok"
                   THEN [kind |-> "success", message |-> "Task deleted successfully"]
                   ELSE [kind |-> "error", message |-> ErrorMessage(err, "Failed to delete task")]
       /\ error' = IF call.phase = "ok" THEN error ELSE ErrorMessage(err, "Failed to delete task")
  /\ UNCHANGED <<activeId, searchQuery, isLoading, dragging, store, nextId, gestures>>
  /\ Rendered(Remove(calls, i))
  /\ UNCHANGED stepsLeft

\* handleDeleteTask from its await on
handleDeleteTaskResume(i) ==
  LET call == calls[i] IN
  /\ call.op = "delete" /\ call.phase # "sent"
  /\ tasks' = handleDeleteTaskTasks(tasks, call)
  /\ \E err \in StoreErrors : toast' = IF call.phase = "ok"
              THEN [kind |-> "success", message |-> "Task deleted successfully"]
              ELSE [kind |-> "error", message |-> ErrorMessage(err, "Failed to delete task")]
  /\ UNCHANGED <<activeId, searchQuery, isLoading, error, dragging, store, nextId, gestures>>
  /\ Rendered(Remove(calls, i))
  /\ UNCHANGED stepsLeft

\* The trash button of a Card in read mode
onDelete(id) ==
  /\ dragging = Null
  /\ id \in DOMAIN cards /\ ~cards[id].isEditing
  /\ handleDeleteTask(id)

(* ------------------------------ edit ----------------------------------- *)

UpdateCall(ts, taskId, updates) ==
  [op |-> "update", phase |-> "sent", snap |-> ts, id |-> taskId,
   updates |-> updates, card |-> TRUE]

\* handleUpdateTask up to its await
handleUpdateTask(taskId, updates) ==
  /\ CanIssue
  /\ calls' = Append(calls, UpdateCall(tasks, taskId, updates))
  /\ gestures' = gestures + 1
  /\ stepsLeft' = stepsLeft - 1
  /\ UNCHANGED <<tasks, activeId, searchQuery, isLoading, error, forms, cards, dragging,
                 toast, store, nextId>>

\* The collection handleUpdateTask leaves once the update has answered.
handleUpdateTaskTasks(cur, call) ==
  IF call.phase = "err"
  THEN cur
  ELSE [k \in 1..Len(call.snap) |->
          IF call.snap[k].id = call.id
          THEN Merge(call.snap[k], call.updates)
          ELSE call.snap[k]]

\* handleUpdateTaskResume whose Card leaves edit mode only when the update
\* has succeeded (as if handleUpdateTask rethrew the error to handleSave)
handleUpdateTaskResume_StayOnError(i) ==
  LET call == calls[i] IN
  /\ call.op = "update" /\ call.phase # "sent"
  /\ tasks' = handleUpdateTaskTasks(tasks, call)
  /\ \E err \in StoreErrors : toast' = IF call.phase = "ok"
              THEN [kind |-> "success", message |-> "Task updated successfully"]
              ELSE [kind |-> "error", message |-> ErrorMessage(err, "Failed to update task")]
  /\ UNCHANGED <<activeId, searchQuery, isLoading, error, dragging, store, nextId, gestures>>
  /\ LET mounted == MountedCards(cards, tasks', searchQuery', isLoading', error')
         alive == /\ call.card /\ call.phase = "ok"
                  /\ call.id \in DOMAIN cards /\ call.id \in DOMAIN mounted
                  /\ cards[call.id].col = mounted[call.id].col
     IN /\ cards' = IF alive THEN [mounted EXCEPT ![call.id].isEditing = FALSE] ELSE mounted
        /\ forms' = MountedForms(forms, error')
        /\ calls' = SurvivingCalls(Remove(calls, i), cards, mounted)
  /\ UNCHANGED stepsLeft

\* handleUpdateTask from its await on, then handleSave of the Card that
\* awaited it: setIsEditing(false), which reaches the Card only if it is
\* still mounted.
handleUpdateTaskResume(i) ==
  LET call == calls[i] IN
  /\ call.op = "update" /\ call.phase # "sent"
  /\ tasks' = handleUpdateTaskTasks(tasks, call)
  /\ \E err \in StoreErrors : toast' = IF call.phase = "ok"
              THEN [kind |-> "success", message |-> "Task updated successfully"]
              ELSE [kind |-> "error", message |-> ErrorMessage(err, "Failed to update task")]
  /\ UNCHANGED <<activeId, searchQuery, isLoading, error, dragging, store, nextId, gestures>>
  /\ LET mounted == MountedCards(cards, tasks', searchQuery', isLoading', error')
         alive == /\ call.card
                  /\ call.id \in DOMAIN cards /\ call.id \in DOMAIN mounted
                  /\ cards[call.id].col = mounted[call.id].col
     IN /\ cards' = IF alive THEN [mounted EXCEPT ![call.id].isEditing = FALSE] ELSE mounted
        /\ forms' = MountedForms(forms, error')
        /\ calls' = SurvivingCalls(Remove(calls, i), cards, mounted)
  /\ UNCHANGED stepsLeft

Editing == {id \in DOMAIN cards : cards[id].isEditing}

\* The pencil button of a Card in read mode
startEdit(id) ==
  /\ dragging = Null
  /\ id \in DOMAIN cards /\ ~cards[id].isEditing
  /\ Cardinality(Editing) < MaxOpen
  /\ cards' = [cards EXCEPT ![id].isEditing = TRUE]
  /\ UNCHANGED <<tasks, activeId, searchQuery, isLoading, error, forms, dragging,
                 toast, store, nextId, calls, gestures>>
  /\ CanType /\ stepsLeft' = stepsLeft - 1

setEditedTitle(id, s) ==
  /\ dragging = Null
  /\ id \in DOMAIN cards /\ cards[id].isEditing /\ cards[id].editedTitle # s
  /\ cards' = [cards EXCEPT ![id].editedTitle = s]
  /\ UNCHANGED <<tasks, activeId, searchQuery, isLoading, error, forms, dragging,
                 toast, store, nextId, calls, gestures>>
  /\ CanType /\ stepsLeft' = stepsLeft - 1

setEditedDescription(id, s) ==
  /\ dragging = Null
  /\ id \in DOMAIN cards /\ cards[id].isEditing /\ cards[id].editedDescription # s
  /\ cards' = [cards EXCEPT ![id].editedDescription = s]
  /\ UNCHANGED <<tasks, activeId, searchQuery, isLoading, error, forms, dragging,
                 toast, store, nextId, calls, gestures>>
  /\ CanType /\ stepsLeft' = stepsLeft - 1

\* handleSave of a Card: the Save button, or Enter in the title field
handleSave(id) ==
  /\ dragging = Null
  /\ id \in DOMAIN cards /\ cards[id].isEditing
  /\ IF trim(cards[id].editedTitle) = <<>>
     THEN UNCHANGED vars
     ELSE handleUpdateTask(id, [title |-> cards[id].editedTitle,
                                description |-> cards[id].editedDescription])

(* --------------------------- specification ----------------------------- *)

Next ==
  \/ \E i \in 1..Len(calls) : StoreAccept(i)
  \/ \E i \in 1..Len(calls) : StoreReject(i)
  \/ fetchTasks
  \/ \E i \in 1..Len(calls) : fetchTasksResume(i)
  \/ \E q \in SearchInputs : setSearchQuery(q)
  \/ \E id \in DOMAIN cards : onDragStart(id)
  \/ \E over \in DropTargets : handleDragEnd(over)
  \/ \E i \in 1..Len(calls) : handleDragEndResume(i)
  \/ \E c \in ColumnIds : openForm(c)
  \/ \E c \in ColumnIds, s \in NewTitleInputs : setNewTaskTitle(c, s)
  \/ \E c \in ColumnIds, s \in NewDescriptionInputs : setNewTaskDescription(c, s)
  \/ \E c \in ColumnIds : ColumnHandleAddTask(c)
  \/ \E i \in 1..Len(calls) : handleAddTaskResume(i)
  \/ \E id \in DOMAIN cards : onDelete(id)
  \/ \E i \in 1..Len(calls) : handleDeleteTaskResume(i)
  \/ \E id \in DOMAIN cards : startEdit(id)
  \/ \E id \in DOMAIN cards, s \in EditTitleInputs : setEditedTitle(id, s)
  \/ \E id \in DOMAIN cards, s \in EditDescriptionInputs : setEditedDescription(id, s)
  \/ \E id \in DOMAIN cards : handleSave(id)
  \/ \E i \in 1..Len(calls) : handleUpdateTaskResume(i)

Spec == Init /\ [][Next]_vars

(* ------------------------------ claims --------------------------------- *)

\* The calls without the one field a render changes in a pending call.
Closures(cs) ==
  [k \in 1..Len(cs) |-> IF cs[k].op = "update" THEN [cs[k] EXCEPT !.card = TRUE] ELSE cs[k]]

\* The step is the continuation of call i: the call leaves `calls`.
Resumes(i) == Closures(calls') = Closures(Remove(calls, i))

\* The step issues a remote call.
Issues == Len(calls') = Len(calls) + 1

\* C1: when the remote call of an add, edit, delete or drag-move has failed,
\* the handler's continuation (the step that shows the failure notification)
\* writes nothing to the local collection: the collection after it is the
\* collection before it, so a task whose move failed keeps its status.
C1_FailureLeavesTasks ==
  [][\A i \in 1..Len(calls) :
       (calls[i].op # "list" /\ calls[i].phase = "err" /\ Resumes(i)) => tasks' = tasks]_vars

\* A delete has failed and was notified while the collection holds tasks.
C1_Witness ==
  /\ toast = [kind |-> "error", message |-> "Failed to delete task"]
  /\ tasks # <<>>

\* C2: completing a drag of a task with the column it is rendered in as the
\* drop target issues no remote update and leaves the local collection as it is.
C2_DropOnOwnColumnIsNoOp ==
  [][\A c \in ColumnIds :
       (/\ handleDragEnd(c)
        /\ \E i \in 1..Len(tasksByColumn(tasks, searchQuery, c)) :
             tasksByColumn(tasks, searchQuery, c)[i].id = dragging)
       => (calls' = calls /\ tasks' = tasks)]_vars

\* C3: the local collection never holds two entries with the same id.
C3_UniqueIds ==
  \A i, j \in 1..Len(tasks) : i # j => tasks[i].id # tasks[j].id

\* An added record has joined the two loaded ones.
C3_Witness == Len(tasks) >= 3

\* C4: a step changes the local collection only as the continuation of a
\* remote call that has answered with success.
C4_WriteOnlyAfterSuccess ==
  [][tasks' # tasks =>
       \E i \in 1..Len(calls) : calls[i].phase = "ok" /\ Resumes(i)]_vars

\* A move has succeeded and its write is in the collection.
C4_Witness ==
  /\ toast = [kind |-> "success", message |-> "Task moved successfully"]
  /\ \E k \in 1..Len(tasks) : tasks[k].status = Done

\* C5: when handleDragEnd has finished, with or without a remote update,
\* activeId is null.
C5_ActiveIdCleared ==
  [][(\/ (\E over \in DropTargets : handleDragEnd(over)) /\ calls' = calls
      \/ \E i \in 1..Len(calls) :
           calls[i].op = "move" /\ calls[i].phase # "sent" /\ Resumes(i))
     => activeId' = Null]_vars

\* C6: the form's submit sends a candidate with the column as status and
\* priority "medium"; when the insert has succeeded the last element of the
\* local collection is the record the store returned, with the id the store
\* assigned.
C6_AddAppendsCanonical ==
  [][/\ \A c \in ColumnIds :
          (forms[c].isAddingTask /\ ~forms'[c].isAddingTask)
          => /\ Issues
             /\ calls'[Len(calls')].op = "insert"
             /\ calls'[Len(calls')].newTask.status = c
             /\ calls'[Len(calls')].newTask.priority = "medium"
     /\ \A i \in 1..Len(calls) :
          (calls[i].op = "insert" /\ calls[i].phase = "ok" /\ Resumes(i))
          => /\ tasks' # <<>>
             /\ tasks'[Len(tasks')] = calls[i].data
             /\ \E n \in (Len(SampleRows) + 1)..(nextId - 1) : tasks'[Len(tasks')].id = IdOf(n)]_vars

\* An add for the In Progress column has succeeded.
C6_Witness ==
  /\ toast = [kind |-> "success", message |-> "Task created successfully"]
  /\ tasks # <<>>
  /\ tasks[Len(tasks)].status = InProgress
  /\ tasks[Len(tasks)].priority = "medium"
  /\ tasks[Len(tasks)].title = <<"N">>

IsBlank(s) == \A j \in 1..Len(s) : s[j] \in WhiteSpace

\* C7: a submit of the add-task form whose title is empty or only white
\* space changes nothing; every insert that is issued comes from a form
\* whose title is not blank and carries the title and the description
\* without their leading and trailing white space.
C7_BlankTitleRejected ==
  [][/\ \A c \in ColumnIds :
          (ColumnHandleAddTask(c) /\ IsBlank(forms[c].newTaskTitle))
          => (calls' = calls /\ tasks' = tasks /\ store' = store)
     /\ (Issues /\ calls'[Len(calls')].op = "insert")
        => \E c \in ColumnIds :
             LET sent == calls'[Len(calls')].newTask
                 typedTitle == forms[c].newTaskTitle
                 typedDescription == forms[c].newTaskDescription
             IN  /\ forms[c].isAddingTask /\ forms'[c] = EmptyForm
                 /\ ~IsBlank(typedTitle)
                 /\ sent.title # <<>>
                 /\ sent.title[1] \notin WhiteSpace
                 /\ sent.title[Len(sent.title)] \notin WhiteSpace
                 /\ \E a, b \in 0..Len(typedTitle) :
                      /\ sent.title = SubSeq(typedTitle, a + 1, Len(typedTitle) - b)
                      /\ IsBlank(SubSeq(typedTitle, 1, a))
                      /\ IsBlank(SubSeq(typedTitle, Len(typedTitle) - b + 1, Len(typedTitle)))
                 /\ \E a, b \in 0..Len(typedDescription) :
                      /\ sent.description =
                           SubSeq(typedDescription, a + 1, Len(typedDescription) - b)
                      /\ IsBlank(SubSeq(typedDescription, 1, a))
                      /\ IsBlank(SubSeq(typedDescription,
                                        Len(typedDescription) - b + 1, Len(typedDescription)))
                 /\ (sent.description # <<>>
                     => /\ sent.description[1] \notin WhiteSpace
                        /\ sent.description[Len(sent.description)] \notin WhiteSpace)]_vars

\* An insert is in flight whose title and description were typed with white
\* space around them.
C7_Witness ==
  \E i \in 1..Len(calls) :
    /\ calls[i].op = "insert"
    /\ calls[i].newTask.title = <<"N">>
    /\ calls[i].newTask.description = <<"d">>

\* C8: the write of a successful edit of task T changes, in the local copy of
\* T, only the fields named in the update, and leaves T at its position.
C8_EditChangesOnlyNamedFields ==
  [][\A i \in 1..Len(calls) :
       (calls[i].op = "update" /\ calls[i].phase = "ok" /\ Resumes(i))
       => \A k \in 1..Len(tasks) :
            tasks[k].id = calls[i].id
            => /\ k <= Len(tasks')
               /\ \A f \in DOMAIN tasks[k] \ DOMAIN calls[i].updates :
                    tasks'[k][f] = tasks[k][f]]_vars

\* C9: when a delete answers for an id that the local collection does not
\* hold, the local collection stays as it is and no page-level error is set.
C9_DeleteOfAbsentIdIsNoOp ==
  [][\A i \in 1..Len(calls) :
       (/\ calls[i].op = "delete" /\ calls[i].phase # "sent" /\ Resumes(i)
        /\ ~HasTask(tasks, calls[i].id))
       => (tasks' = tasks /\ error' = NoError)]_vars

SameIgnoringCase(a, b) ==
  /\ Len(a) = Len(b)
  /\ \A j \in 1..Len(a) : toLowerCaseChar(a[j]) = toLowerCaseChar(b[j])

ContainsIgnoringCase(s, q) ==
  \E o \in 0..(Len(s) - Len(q)) :
    \A j \in 1..Len(q) : toLowerCaseChar(s[o + j]) = toLowerCaseChar(q[j])

InList(list, task) == \E i \in 1..Len(list) : list[i] = task

\* C10: for every task T of the local collection and every column C, under
\* whatever search query q is current, T is in C's list iff T's status is C's identifier up to
\* letter case and T's title contains q up to letter case; T is in at most
\* one column's list, and every element of a list is a task of the collection.
C10_View ==
  LET q == searchQuery IN
  \A c \in ColumnIds :
    LET list == tasksByColumn(tasks, q, c) IN
    /\ \A k \in 1..Len(tasks) :
         InList(list, tasks[k])
         <=> (SameIgnoringCase(tasks[k].status, c) /\ ContainsIgnoringCase(tasks[k].title, q))
    /\ \A d \in ColumnIds \ {c} :
         LET other == tasksByColumn(tasks, q, d) IN
         \A k \in 1..Len(tasks) : ~(InList(list, tasks[k]) /\ InList(other, tasks[k]))
    /\ \A i \in 1..Len(list) : InList(tasks, list[i])

\* Under the query "B" the Todo column lists both the task with status
\* "todo" and the task with status "Todo".
C10_Witness ==
  /\ searchQuery = <<"B">>
  /\ Len(tasksByColumn(tasks, searchQuery, Todo)) = 2
  /\ \E k \in 1..Len(tasks) : tasks[k].status = <<"t","o","d","o">>

\* A load is in flight.
Loading == \E i \in 1..Len(calls) : calls[i].op = "list"

\* C11: the loading flag is true exactly while a load is in flight; the step
\* that completes a load leaves the error message non-null iff the load
\* failed and, when it succeeded, leaves the list the store returned as the
\* local collection; Retry on the error page clears the error and sends the
\* same list request again.
C11_LoadLifecycle ==
  [][/\ isLoading = Loading
     /\ isLoading' = Loading'
     /\ \A i \in 1..Len(calls) :
          (calls[i].op = "list" /\ calls[i].phase # "sent" /\ Resumes(i))
          => /\ ~isLoading'
             /\ (error' # NoError) <=> (calls[i].phase = "err")
             /\ calls[i].phase = "ok" => tasks' = calls[i].data
             /\ calls[i].phase = "err" => tasks' = tasks
     /\ (error # NoError /\ error' = NoError)
        => /\ Issues
           /\ calls'[Len(calls')] = [op |-> "list", phase |-> "sent", data |-> <<>>]
           /\ isLoading'
           /\ tasks' = tasks
     /\ \A i \in 1..Len(calls) :
          (/\ calls[i].op = "list" /\ calls[i].phase = "sent"
           /\ Len(calls') = Len(calls) /\ calls'[i].phase = "ok")
          => calls'[i].data = store]_vars

\* A first load has failed, Retry has loaded the two rows of the store.
C11_Witness ==
  /\ toast = [kind |-> "error", message |-> "Failed to fetch tasks"]
  /\ error = NoError /\ ~isLoading
  /\ Len(tasks) = 2 /\ tasks = store

\* The records a sequence holds.
Records(seq) == {seq[k] : k \in 1..Len(seq)}

\* C12: whenever the board is shown and no remote call is in flight, the
\* local collection holds exactly the records the store holds, each once.
C12_MirrorsStore ==
  (calls = <<>> /\ error = NoError)
  => /\ Records(tasks) = Records(store)
     /\ Len(tasks) = Len(store)

\* ts with the status of the task(s) with this id set to `status`
WithStatus(ts, id, status) ==
  [k \in 1..Len(ts) |-> IF ts[k].id = id THEN [ts[k] EXCEPT !.status = status] ELSE ts[k]]

\* C13: the write of a successful drag-move of task T changes, in the
\* collection as it was just before the write, only T's status: the other
\* tasks, T's other fields and the order stay.
C13_MoveChangesOnlyStatus ==
  [][\A i \in 1..Len(calls) :
       (calls[i].op = "move" /\ calls[i].phase = "ok" /\ Resumes(i))
       => tasks' = WithStatus(tasks, calls[i].id, calls[i].overColumn)]_vars

\* C14: the write of a successful drag-move leaves the task with the status
\* that move asked for, whatever the other moves of the same task, issued
\* before or after it, have written: of two moves of one task, the one whose
\* response is handled last decides the local status.
C14_LastResponseWins ==
  [][\A i \in 1..Len(calls) :
       (calls[i].op = "move" /\ calls[i].phase = "ok" /\ Resumes(i))
       => /\ HasTask(tasks', calls[i].id)
          /\ Find(tasks', calls[i].id).status = calls[i].overColumn]_vars

\* Two moves of one task to two columns have both succeeded; the store applied
\* them in one order and the responses were handled in the other, so the
\* local status is the target of the move the store applied first.
C14_Witness ==
  /\ calls = <<>>
  /\ toast = [kind |-> "success", message |-> "Task moved successfully"]
  /\ \E k \in 1..Len(tasks), m \in 1..Len(store) :
       /\ tasks[k].id = store[m].id
       /\ tasks[k].status \in ColumnIds /\ store[m].status \in ColumnIds
       /\ tasks[k].status # store[m].status

\* The column whose list shows the card of this task.
ColumnOf(id) == cards[id].col

\* C15: completing a drag over another card of the dragged card's own column
\* (the drop target reported is that card's task id) issues no remote update
\* and leaves the local collection as it is.
C15_ReorderInColumnIsNoOp ==
  [][\A over \in DOMAIN cards :
       (/\ handleDragEnd(over)
        /\ dragging \in DOMAIN cards
        /\ over # dragging
        /\ ColumnOf(over) = ColumnOf(dragging))
       => (calls' = calls /\ tasks' = tasks)]_vars

\* Every task of ts has a status equal to a configured column identifier.
AllConfigured(ts) == \A k \in 1..Len(ts) : ts[k].status \in ColumnIds

\* The board started on a table in which every row has a status equal to a
\* column identifier, so that the first load returns only such tasks.
InitConfigured == Init /\ AllConfigured(store)

SpecConfigured == InitConfigured /\ [][Next]_vars

\* C16: when every task the first load returns has a status equal to a
\* column identifier (SpecConfigured), every task of the local collection has
\* a status equal to a column identifier in every reachable state.
C16_StatusStaysConfigured == AllConfigured(tasks)

\* The task with this id was deleted for good: the store has given the id out
\* and holds it no more, the local collection does not hold it, and no delete
\* of it is still to be handled.
Gone(id) ==
  /\ ~HasTask(store, id)
  /\ ~HasTask(tasks, id)
  /\ \A i \in 1..Len(calls) : ~(calls[i].op = "delete" /\ calls[i].id = id)
  /\ ~isLoading /\ error = NoError

\* C17: a task whose delete has succeeded and that has left the local
\* collection is in the local collection after no later step.
C17_DeletedStaysDeleted ==
  [][\A n \in 1..(nextId - 1) :
       Gone(IdOf(n)) => ~HasTask(tasks', IdOf(n))]_vars

\* The ids of the records the store has created for the board's adds.
AddedIds == {IdOf(n) : n \in (Len(SampleRows) + 1)..(nextId - 1)}

\* C18: a task that an add has appended to the local collection leaves it in
\* no step other than the write of a successful delete of that task.
C18_AddedStays ==
  [][\A k \in 1..Len(tasks) :
       tasks[k].id \in AddedIds
       => \/ HasTask(tasks', tasks[k].id)
          \/ \E i \in 1..Len(calls) :
               /\ calls[i].op = "delete" /\ calls[i].id = tasks[k].id
               /\ calls[i].phase = "ok" /\ Resumes(i)]_vars

\* C19: the page-level error changes only in a load: the continuation of a
\* failed list call sets it and Retry clears it.  The continuation of an add,
\* edit, delete or drag-move, failed or not, leaves the error message and the
\* loading flag as they are, so the board stays rendered after the first
\* successful load.
C19_OnlyLoadSetsError ==
  [][/\ \A i \in 1..Len(calls) :
          (calls[i].op # "list" /\ calls[i].phase # "sent" /\ Resumes(i))
          => (error' = NoError /\ error = NoError /\ ~isLoading')
     /\ (error = NoError /\ error' # NoError)
        => \E i \in 1..Len(calls) :
             calls[i].op = "list" /\ calls[i].phase = "err" /\ Resumes(i)
     /\ (tasks # <<>>) => error' = NoError]_vars

\* An add has failed and was notified; the board is shown with its tasks.
C19_Witness ==
  /\ toast = [kind |-> "error", message |-> "Failed to create task"]
  /\ error = NoError /\ ~isLoading
  /\ tasks # <<>> /\ cards # NoCards

\* C20: Save on a Card whose edited title is empty or only white space calls
\* nothing and leaves the Card in edit mode; every update that is issued is
\* the one update of a Save on a Card in edit mode whose edited title is not
\* blank, carries that Card's task id, edited title and edited description,
\* and leaves the Card in edit mode while it is awaited; when the update
\* returns, with success or with failure, the Card that awaits it is out of
\* edit mode.
C20_CardSave ==
  [][/\ \A id \in DOMAIN cards :
          (cards[id].isEditing /\ IsBlank(cards[id].editedTitle) /\ handleSave(id))
          => (calls' = calls /\ cards' = cards /\ tasks' = tasks /\ store' = store)
     /\ (Issues /\ calls'[Len(calls')].op = "update")
        => /\ SubSeq(calls', 1, Len(calls)) = calls
           /\ \E id \in DOMAIN cards :
                /\ cards[id].isEditing
                /\ ~IsBlank(cards[id].editedTitle)
                /\ calls'[Len(calls')].id = id
                /\ calls'[Len(calls')].updates =
                     [title |-> cards[id].editedTitle,
                      description |-> cards[id].editedDescription]
                /\ cards' = cards
     /\ \A i \in 1..Len(calls) :
          (/\ calls[i].op = "update" /\ calls[i].phase # "sent" /\ Resumes(i)
           /\ calls[i].card /\ calls[i].id \in DOMAIN cards')
          => ~cards'[calls[i].id].isEditing]_vars

\* A failed update has returned to a Card that is still mounted: the Card is
\* out of edit mode and the task keeps its title.
C20_Witness ==
  /\ toast = [kind |-> "error", message |-> "Failed to update task"]
  /\ calls = <<>>
  /\ \E id \in DOMAIN cards :
       /\ ~cards[id].isEditing
       /\ cards[id].editedTitle = <<"E">>
       /\ Find(tasks, id).title # <<"E">>

====
